---- MODULE Spec2Model ----
(***************************************************************************)
(* Pointer-inference State of cwe_checker                                  *)
(* (analysis/pointer_inference/state/mod.rs) and the variadic argument     *)
(* resolver's register/stack assignment (utils/arguments).                 *)
(***************************************************************************)
EXTENDS Integers, Sequences, FiniteSets, TLC

\* ------------------------------------------------------------------ bounds

\* Number of function term identifiers (Tid) a state can be created for.
MaxTid == 2
\* Bit width of the modelled bitvectors (offsets and absolute values).
BitWidth == 1
\* Number of lifecycle operations applied to a state after its construction.
MaxSteps == 3
\* Longest parameter list of an extern symbol.
MaxParams == 3
\* Longest list of variadic values of a format string.
MaxVarArgs == 4
\* Largest index of the format string among the fixed parameters.
MaxFormatIndex == 1

\* Width in bits of the bitvectors of stack offset expressions.
OffsetWidth == 3
\* Nesting depth of the address expressions of stack arguments.
MaxExprDepth == 2

\* Number of tokens (literal characters, %% and conversion specifiers) of a
\* format string handed to the parser.
MaxTokens == 3
\* Number of tokens of a format string in the memory image of a call.
MaxCallTokens == 2

Tids == 1..MaxTid
Modulus == 2 ^ BitWidth
Bitvectors == 0..(Modulus - 1)

\* ------------------------------------------------------------- IR variables

stack_register == "RSP"
callee_saved == "RBP"
virtual_register == "$U1"
\* The register variables of the modelled architecture.
Registers == {stack_register, callee_saved, virtual_register}
\* Variable::is_temp
is_temp(var) == var = virtual_register

\* AbstractIdentifier::new(function_tid, AbstractLocation::from_var(var))
AbstractIdentifier(function_tid, var) == <<function_tid, var>>
AbstractIdentifiers == Tids \X {stack_register, callee_saved}

\* ------------------------------------------------ value domain and Data

Min(S) == CHOOSE x \in S : \A y \in S : x <= y
Max(S) == CHOOSE x \in S : \A y \in S : x >= y

\* An interval of bitvectors is the set of its elements; the join of two
\* intervals is the smallest interval holding both.
value_merge(a, b) == Min(a \cup b)..Max(a \cup b)
\* Bitvector addition of a constant to every element of an interval.
value_add(a, c) == {(x + c) % Modulus : x \in a}

Top == [kind |-> "Top", value |-> {}, targets |-> {}]
Value(interval) == [kind |-> "Value", value |-> interval, targets |-> {}]
\* targets: a set of <<identifier, offset interval>>, one pair per identifier.
Pointer(targets) == [kind |-> "Pointer", value |-> {}, targets |-> targets]
from_target(id, offset) == Pointer({<<id, offset>>})

data_is_top(data) == data.kind = "Top"
referenced_ids(data) == {t[1] : t \in data.targets}
target_offset(data, id) == (CHOOSE t \in data.targets : t[1] = id)[2]

\* Join of two pointer target sets: union of the identifiers, the offsets of
\* a common identifier joined.
targets_merge(ta, tb) ==
    LET ids == {t[1] : t \in ta} \cup {t[1] : t \in tb}
        off(ts, id) == (CHOOSE t \in ts : t[1] = id)[2]
        has(ts, id) == \E t \in ts : t[1] = id
    IN  { <<id, IF has(ta, id) /\ has(tb, id)
                THEN value_merge(off(ta, id), off(tb, id))
                ELSE IF has(ta, id) THEN off(ta, id) ELSE off(tb, id)>>
          : id \in ids }

\* Join of the Data lattice: Top | numeric interval | pointer targets.
data_merge(a, b) ==
    IF a = b THEN a
    ELSE IF data_is_top(a) \/ data_is_top(b) THEN Top
    ELSE IF a.kind = "Pointer" /\ b.kind = "Pointer"
         THEN Pointer(targets_merge(a.targets, b.targets))
    ELSE IF a.kind = "Value" /\ b.kind = "Value"
         THEN IF value_merge(a.value, b.value) = Bitvectors
              THEN Top
              ELSE Value(value_merge(a.value, b.value))
    ELSE Top

\* Data plus a constant (Expression::plus_const evaluated on abstract data).
data_add(data, c) ==
    IF data.kind = "Pointer"
    THEN Pointer({<<t[1], value_add(t[2], c)>> : t \in data.targets})
    ELSE IF data.kind = "Value" THEN Value(value_add(data.value, c))
    ELSE Top

\* Rewrite a reference to old_id into a reference to new_id with the stored
\* offset shifted by offset_adjustment.
data_replace_abstract_id(data, old_id, new_id, offset_adjustment) ==
    IF data.kind # "Pointer" \/ old_id \notin referenced_ids(data) THEN data
    ELSE Pointer(
        {t \in data.targets : t[1] # old_id /\ t[1] # new_id}
        \cup {<<new_id, value_add(target_offset(data, old_id), offset_adjustment)>>})

\* ------------------------------------------------------- sparse maps

\* A map (BTreeMap) is a function whose domain is its key set.
EmptyMap == <<>>
Restrict(map, keys) == [k \in DOMAIN map \cap keys |-> map[k]]
Insert(map, key, val) ==
    [k \in DOMAIN map \cup {key} |-> IF k = key THEN val ELSE map[k]]
Remove(map, key) == Restrict(map, DOMAIN map \ {key})

\* ------------------------------------------------------------ results

Ok == [kind |-> "Ok"]
Err(error) == [kind |-> "Err", error |-> error]
Panic == [kind |-> "Panic"]

\* ------------------------------------- AbstractObject, AbstractObjectList

\* One memory object: its kind, its freed-status and its content, a sparse
\* map from offsets to non-Top Data.
AbstractObject(type, status) ==
    [type |-> type, state |-> status, memory |-> EmptyMap]

object_get(object, offset) ==
    IF offset \in DOMAIN object.memory THEN object.memory[offset] ELSE Top

object_set(object, offset, data) ==
    [object EXCEPT !.memory =
        IF data_is_top(data) THEN Remove(@, offset) ELSE Insert(@, offset, data)]

\* Identifiers referenced by pointers stored in the object.
object_referenced_ids(object) ==
    UNION {referenced_ids(object.memory[o]) : o \in DOMAIN object.memory}

same_or_unknown(a, b) == IF a = b THEN a ELSE "Unknown"

\* Object-level join.
object_merge(a, b) ==
    IF a = b THEN a
    ELSE LET cells == {o \in DOMAIN a.memory \cap DOMAIN b.memory :
                         ~data_is_top(data_merge(a.memory[o], b.memory[o]))}
         IN  [type |-> same_or_unknown(a.type, b.type),
              state |-> same_or_unknown(a.state, b.state),
              memory |-> [o \in cells |-> data_merge(a.memory[o], b.memory[o])]]

object_replace_abstract_id(object, old_id, new_id, offset_adjustment) ==
    [object EXCEPT !.memory =
        [o \in DOMAIN @ |->
            data_replace_abstract_id(@[o], old_id, new_id, offset_adjustment)]]

\* AbstractObjectList::from_stack_id
from_stack_id(stack_id) ==
    Insert(EmptyMap, stack_id, AbstractObject("Stack", "Live"))

\* AbstractObjectList::add_abstract_object
add_abstract_object(objects, id, type) ==
    Insert(objects, id, AbstractObject(type, "Live"))

\* AbstractObjectList::merge: objects are joined one by one, an object known
\* to one side only is retained.
object_list_merge(objects, other) ==
    [id \in DOMAIN objects \cup DOMAIN other |->
        IF id \in DOMAIN objects /\ id \in DOMAIN other
        THEN object_merge(objects[id], other[id])
        ELSE IF id \in DOMAIN objects THEN objects[id] ELSE other[id]]

\* AbstractObjectList::remove_unused_objects
remove_unused_objects(objects, ids_to_keep) == Restrict(objects, ids_to_keep)

\* AbstractObjectList::remove_object
remove_object(objects, id) == Remove(objects, id)

\* AbstractObjectList::append_unknown_objects
append_unknown_objects(objects, other) ==
    [id \in DOMAIN objects \cup DOMAIN other |->
        IF id \in DOMAIN objects THEN objects[id] ELSE other[id]]

\* AbstractObjectList::replace_abstract_id
object_list_replace_abstract_id(objects, old_id, new_id, offset_adjustment) ==
    [id \in DOMAIN objects |->
        object_replace_abstract_id(objects[id], old_id, new_id, offset_adjustment)]

\* The objects a pointer resolves to.
candidates(objects, object_pointer) ==
    referenced_ids(object_pointer) \cap DOMAIN objects

\* AbstractObjectList::mark_mem_object_as_freed: one candidate is marked
\* Freed, several candidates are marked Unknown; the candidates that were
\* already Freed are returned.
object_list_mark_mem_object_as_freed(objects, object_pointer) ==
    LET ids == candidates(objects, object_pointer)
        status == IF Cardinality(ids) = 1 THEN "Freed" ELSE "Unknown"
        already == {id \in ids : objects[id].state = "Freed"}
    IN  [memory |-> [id \in DOMAIN objects |->
                        IF id \in ids
                        THEN [objects[id] EXCEPT !.state = status]
                        ELSE objects[id]],
         result |-> IF already = {} THEN Ok ELSE Err(already)]

\* AbstractObjectList::set_value: a strong update for one exactly known cell,
\* else a weak update (join) of every cell that may be written.
set_value(objects, pointer, data) ==
    LET ids == referenced_ids(pointer)
        exact == Cardinality(ids) = 1
                 /\ \A t \in pointer.targets : Cardinality(t[2]) = 1
        write(object, offsets) ==
            [object EXCEPT !.memory =
                LET keep == {o \in DOMAIN @ :
                               o \in offsets => ~data_is_top(data_merge(@[o], data))}
                IN  [o \in keep |-> IF o \in offsets
                                    THEN data_merge(@[o], data) ELSE @[o]]]
    IN  [id \in DOMAIN objects |->
            IF id \notin ids THEN objects[id]
            ELSE IF exact
                 THEN object_set(objects[id], Min(target_offset(pointer, id)), data)
                 ELSE write(objects[id], target_offset(pointer, id))]

\* ------------------------------------------------- expressions and Args

\* Expression::Var(var).plus_const(const)
Expression(var, const) == [var |-> var, const |-> const]
\* Arg::Register { expr: Expression::Var(var), .. }
ArgRegister(var) == [kind |-> "Register", expr |-> Expression(var, 0)]
\* Arg::Stack { address, .. }
ArgStack(address) == [kind |-> "Stack", expr |-> address]

\* The shapes of Expression: Var, Const, BinOp and UnOp, and the others
\* (Cast, Subpiece, Unknown) of which Subpiece stands for a sub-register.
ExprVar(var) == [shape |-> "Var", var |-> var]
ExprConst(bitvec) == [shape |-> "Const", bitvec |-> bitvec]
ExprBinOp(operator, lhs, rhs) ==
    [shape |-> "BinOp", op |-> operator, lhs |-> lhs, rhs |-> rhs]
ExprUnOp(operator, arg) == [shape |-> "UnOp", op |-> operator, arg |-> arg]
ExprSubpiece(arg) == [shape |-> "Subpiece", arg |-> arg]
ExprUnknown == [shape |-> "Unknown"]

\* Expression::plus_const as an expression tree: adding zero changes nothing.
plus_const(expr, const) ==
    IF const = 0 THEN expr ELSE ExprBinOp("IntAdd", expr, ExprConst(const))

\* The expression tree of a stack address Expression(var, const).
expression_of(address) == plus_const(ExprVar(address.var), address.const)

\* Arg::Register and Arg::Stack with an arbitrary expression.
ArgRegisterOf(expr) == [kind |-> "Register", expr |-> expr]
ArgStackOf(address) == [kind |-> "Stack", expr |-> address]

OffsetModulus == 2 ^ OffsetWidth

\* Bitvector::bin_op and Bitvector::un_op on bitvectors of one width.
bin_op(lhs, operator, rhs) ==
    CASE operator = "IntAdd" -> (lhs + rhs) % OffsetModulus
      [] operator = "IntSub" -> (lhs - rhs + OffsetModulus) % OffsetModulus
      [] operator = "IntMult" -> (lhs * rhs) % OffsetModulus

un_op(arg, operator) ==
    CASE operator = "Int2Comp" -> (OffsetModulus - arg) % OffsetModulus
      [] operator = "IntNegate" -> OffsetModulus - 1 - arg

OkValue(value) == [kind |-> "Ok", value |-> value]

RECURSIVE eval_stack_offset_expression_any_register(_, _)
\* eval_stack_offset_expression that reads every register as zero.
eval_stack_offset_expression_any_register(expression, stack_reg) ==
    CASE expression.shape = "Var" -> OkValue(0)
      [] expression.shape = "Const" -> OkValue(expression.bitvec)
      [] expression.shape = "BinOp" ->
            LET lhs == eval_stack_offset_expression_any_register(expression.lhs, stack_reg)
                rhs == eval_stack_offset_expression_any_register(expression.rhs, stack_reg)
            IN  IF lhs.kind = "Err" THEN lhs
                ELSE IF rhs.kind = "Err" THEN rhs
                ELSE OkValue(bin_op(lhs.value, expression.op, rhs.value))
      [] expression.shape = "UnOp" ->
            LET arg == eval_stack_offset_expression_any_register(expression.arg, stack_reg)
            IN  IF arg.kind = "Err" THEN arg
                ELSE OkValue(un_op(arg.value, expression.op))
      [] OTHER -> Err("Expression type not supported for argument values")

RECURSIVE eval_stack_offset_expression(_, _)
\* Arg::eval_stack_offset_expression: the ? operator returns the error of
\* the left operand first.
eval_stack_offset_expression(expression, stack_reg) ==
    CASE expression.shape = "Var" ->
            IF expression.var = stack_reg THEN OkValue(0)
            ELSE Err("Input register is not the stack register")
      [] expression.shape = "Const" -> OkValue(expression.bitvec)
      [] expression.shape = "BinOp" ->
            LET lhs == eval_stack_offset_expression(expression.lhs, stack_reg)
                rhs == eval_stack_offset_expression(expression.rhs, stack_reg)
            IN  IF lhs.kind = "Err" THEN lhs
                ELSE IF rhs.kind = "Err" THEN rhs
                ELSE OkValue(bin_op(lhs.value, expression.op, rhs.value))
      [] expression.shape = "UnOp" ->
            LET arg == eval_stack_offset_expression(expression.arg, stack_reg)
            IN  IF arg.kind = "Err" THEN arg
                ELSE OkValue(un_op(arg.value, expression.op))
      [] OTHER -> Err("Expression type not supported for argument values")

\* Arg::eval_stack_offset
eval_stack_offset(self, stack_reg) ==
    IF self.kind = "Register" THEN Err("The argument is not a stack argument.")
    ELSE eval_stack_offset_expression(self.expr, stack_reg)

\* ExternSymbol::get_unique_return_register that takes any register
\* expression.
get_unique_return_register_accepts_sub_register(return_values) ==
    IF Len(return_values) = 1
    THEN IF return_values[1].kind = "Register"
         THEN IF return_values[1].expr.shape = "Var"
              THEN OkValue(return_values[1].expr.var)
              ELSE OkValue(return_values[1].expr.arg.var)
         ELSE Err("Return value is passed on the stack")
    ELSE Err("Wrong number of return values")

\* ExternSymbol::get_unique_return_register
get_unique_return_register(return_values) ==
    IF Len(return_values) = 1
    THEN IF return_values[1].kind = "Register"
         THEN IF return_values[1].expr.shape = "Var"
              THEN OkValue(return_values[1].expr.var)
              ELSE Err("Return value is a sub-register")
         ELSE Err("Return value is passed on the stack")
    ELSE Err("Wrong number of return values")

\* ExternSymbol::get_unique_parameter
get_unique_parameter(parameters) ==
    IF Len(parameters) = 1 THEN OkValue(parameters[1])
    ELSE Err("Wrong number of parameter values")

\* ---------------------------------------------------------------- State

State(register, memory, stack_id, caller_stack_ids, ids_known_to_caller) ==
    [register |-> register,
     memory |-> memory,
     stack_id |-> stack_id,
     caller_stack_ids |-> caller_stack_ids,
     ids_known_to_caller |-> ids_known_to_caller]

\* State::get_register: a register missing from the map holds Top.
get_register(self, variable) ==
    IF variable \in DOMAIN self.register THEN self.register[variable] ELSE Top

\* State::set_register: a Top value is stored as absence.
set_register(self, variable, value) ==
    [self EXCEPT !.register =
        IF data_is_top(value) THEN Remove(@, variable)
        ELSE Insert(@, variable, value)]

\* State::eval of an address expression.
eval(self, expression) ==
    data_add(get_register(self, expression.var), expression.const)

\* State::write_to_address: the write goes to the objects the address points
\* to; it fails if one of them is not tracked, or if the address is an
\* absolute value that is not writeable global memory.
write_to_address(self, address, value, global_memory) ==
    LET address_data == eval(self, address)
    IN  IF address_data.kind = "Pointer"
        THEN IF referenced_ids(address_data) \subseteq DOMAIN self.memory
             THEN [state |-> [self EXCEPT !.memory =
                                set_value(@, address_data, value)],
                   result |-> Ok]
             ELSE [state |-> self, result |-> Err(address)]
        ELSE IF address_data.kind = "Value"
             THEN [state |-> self,
                   result |-> IF address_data.value \subseteq global_memory
                              THEN Ok ELSE Err(address)]
        ELSE [state |-> self, result |-> Ok]

\* State::new
new(stack_reg, function_tid) ==
    LET stack_id == AbstractIdentifier(function_tid, stack_reg)
    IN  State(Insert(EmptyMap, stack_reg, from_target(stack_id, {0})),
              from_stack_id(stack_id),
              stack_id, {}, {})

RECURSIVE add_parameter_objects(_, _, _)
\* The loop of State::new_with_generic_parameter_objects over params.
add_parameter_objects(self, function_tid, params) ==
    IF params = <<>> THEN self
    ELSE LET param == Head(params)
             param_id == AbstractIdentifier(function_tid, param)
             added == [self EXCEPT !.memory =
                          add_abstract_object(@, param_id, "Heap")]
         IN  add_parameter_objects(
                 set_register(added, param, from_target(param_id, {0})),
                 function_tid, Tail(params))

\* State::new_with_generic_parameter_objects
new_with_generic_parameter_objects(stack_reg, function_tid, params) ==
    add_parameter_objects(new(stack_reg, function_tid), function_tid, params)

\* The elements of a sequence.
Range(seq) == {seq[i] : i \in DOMAIN seq}

\* The link register of the MIPS ABI (Variable { name: "t9", .. }).
link_register == "t9"

\* The digits u64::from_str_radix(_, 16) accepts, by value.
hex_digits ==
    <<"0", "1", "2", "3", "4", "5", "6", "7",
      "8", "9", "a", "b", "c", "d", "e", "f">>

hex_value(char) == (CHOOSE i \in DOMAIN hex_digits : hex_digits[i] = char) - 1

RECURSIVE hex_number(_, _)
\* The value of a string of hexadecimal digits, most significant digit first.
hex_number(digits, value) ==
    IF digits = <<>> THEN value
    ELSE hex_number(Tail(digits), 16 * value + hex_value(Head(digits)))

\* u64::from_str_radix(src, 16): an optional plus sign and at least one
\* hexadecimal digit, anything else is a ParseIntError. (The strings of the
\* model are too short for the overflow error.)
from_str_radix(src) ==
    LET digits == IF src # <<>> /\ Head(src) = "+" THEN Tail(src) ELSE src
    IN  IF digits = <<>> \/ \E i \in DOMAIN digits : digits[i] \notin Range(hex_digits)
        THEN Err("ParseIntError")
        ELSE [kind |-> "Ok", value |-> hex_number(digits, 0)]

\* State::set_mips_link_register: the callee address is parsed (the ? operator
\* returns the error), resized to the pointer size and stored in t9.
set_mips_link_register(self, callee_address) ==
    LET parsed == from_str_radix(callee_address)
    IN  IF parsed.kind = "Err"
        THEN [state |-> self, result |-> parsed]
        ELSE [state |-> set_register(self, link_register,
                                     Value({parsed.value % Modulus})),
              result |-> Ok]

\* clear_non_callee_saved_register that leaves the temporary registers alone.
clear_non_callee_saved_register_keeps_virtual(self, callee_saved_register) ==
    [self EXCEPT !.register =
        [var \in {v \in Range(callee_saved_register) \cup {r \in DOMAIN @ : is_temp(r)} :
                    ~data_is_top(get_register(self, v))}
            |-> get_register(self, var)]]

\* clear_non_callee_saved_register without the test for Top values.
clear_non_callee_saved_register_keeps_top(self, callee_saved_register) ==
    [self EXCEPT !.register =
        [var \in Range(callee_saved_register) |-> get_register(self, var)]]

\* State::clear_non_callee_saved_register
clear_non_callee_saved_register(self, callee_saved_register) ==
    [self EXCEPT !.register =
        [var \in {v \in Range(callee_saved_register) :
                    ~data_is_top(get_register(self, v))}
            |-> get_register(self, var)]]

RECURSIVE clear_stack_parameter_loop_first_error(_, _, _, _)
\* The loop of clear_stack_parameter keeping the error seen first.
clear_stack_parameter_loop_first_error(self, parameters, global_memory, result_log) ==
    IF parameters = <<>> THEN [state |-> self, result |-> result_log]
    ELSE LET arg == Head(parameters)
         IN  IF arg.kind = "Register"
             THEN clear_stack_parameter_loop_first_error(
                      self, Tail(parameters), global_memory, result_log)
             ELSE LET written ==
                          write_to_address(self, arg.expr, Top, global_memory)
                  IN  clear_stack_parameter_loop_first_error(
                          written.state, Tail(parameters), global_memory,
                          IF written.result.kind = "Err" /\ result_log.kind = "Ok"
                          THEN written.result ELSE result_log)

RECURSIVE clear_stack_parameter_loop(_, _, _, _)
\* The loop of State::clear_stack_parameter: result_log keeps the error of
\* the failed write seen last, every write is attempted.
clear_stack_parameter_loop(self, parameters, global_memory, result_log) ==
    IF parameters = <<>> THEN [state |-> self, result |-> result_log]
    ELSE LET arg == Head(parameters)
         IN  IF arg.kind = "Register"
             THEN clear_stack_parameter_loop(
                      self, Tail(parameters), global_memory, result_log)
             ELSE LET written ==
                          write_to_address(self, arg.expr, Top, global_memory)
                  IN  clear_stack_parameter_loop(
                          written.state, Tail(parameters), global_memory,
                          IF written.result.kind = "Err"
                          THEN written.result ELSE result_log)

\* State::clear_stack_parameter
clear_stack_parameter(self, parameters, global_memory) ==
    clear_stack_parameter_loop(self, parameters, global_memory, Ok)

RECURSIVE reachable_ids(_, _)
\* State::add_directly_reachable_ids_to_id_set: the identifiers reachable
\* from ids through pointers stored in tracked objects.
reachable_ids(memory, ids) ==
    LET next == ids \cup UNION {object_referenced_ids(memory[id]) :
                                  id \in ids \cap DOMAIN memory}
    IN  IF next = ids THEN ids ELSE reachable_ids(memory, next)

add_directly_reachable_ids_to_id_set(self, ids) ==
    reachable_ids(self.memory, ids)

\* The identifiers referenced by register values.
register_referenced_ids(self) ==
    UNION {referenced_ids(self.register[reg]) : reg \in DOMAIN self.register}

\* remove_unreferenced_objects without the current stack_id among the
\* referenced identifiers.
remove_unreferenced_objects_forgets_stack_id(self) ==
    LET referenced == add_directly_reachable_ids_to_id_set(self,
                          register_referenced_ids(self)
                          \cup self.caller_stack_ids
                          \cup self.ids_known_to_caller)
    IN  [self EXCEPT !.memory = remove_unused_objects(@, referenced)]

\* remove_unreferenced_objects without the identifiers known to the caller
\* among the referenced identifiers.
remove_unreferenced_objects_forgets_known_ids(self) ==
    LET referenced == add_directly_reachable_ids_to_id_set(self,
                          register_referenced_ids(self)
                          \cup {self.stack_id}
                          \cup self.caller_stack_ids)
    IN  [self EXCEPT !.memory = remove_unused_objects(@, referenced)]

\* State::remove_unreferenced_objects
remove_unreferenced_objects(self) ==
    LET referenced == add_directly_reachable_ids_to_id_set(self,
                          register_referenced_ids(self)
                          \cup {self.stack_id}
                          \cup self.caller_stack_ids
                          \cup self.ids_known_to_caller)
    IN  [self EXCEPT !.memory = remove_unused_objects(@, referenced)]

\* State::replace_abstract_id: every reference to old_id, in registers, in
\* objects and in the bookkeeping of the state, becomes one to new_id.
replace_abstract_id(self, old_id, new_id, offset_adjustment) ==
    LET rename(ids) == IF old_id \in ids
                       THEN (ids \ {old_id}) \cup {new_id} ELSE ids
    IN  State([reg \in DOMAIN self.register |->
                  data_replace_abstract_id(self.register[reg],
                                           old_id, new_id, offset_adjustment)],
              object_list_replace_abstract_id(self.memory,
                                              old_id, new_id, offset_adjustment),
              IF self.stack_id = old_id THEN new_id ELSE self.stack_id,
              rename(self.caller_stack_ids),
              rename(self.ids_known_to_caller))

\* merge_callee_stack_to_caller_stack that keeps the callee's object.
merge_callee_stack_keeps_callee_object(self, callee_id, caller_id, offset_adjustment) ==
    replace_abstract_id(self, callee_id, caller_id, offset_adjustment)

\* State::merge_callee_stack_to_caller_stack
merge_callee_stack_to_caller_stack(self, callee_id, caller_id, offset_adjustment) ==
    replace_abstract_id([self EXCEPT !.memory = remove_object(@, callee_id)],
                        callee_id, caller_id, offset_adjustment)

\* mark_mem_object_as_freed that leaves the state alone when it reports
\* already freed objects.
mark_mem_object_as_freed_aborts(self, object_pointer) ==
    LET marked == object_list_mark_mem_object_as_freed(self.memory, object_pointer)
    IN  [state |-> IF marked.result.kind = "Err" THEN self
                   ELSE [self EXCEPT !.memory = marked.memory],
         result |-> marked.result]

\* State::mark_mem_object_as_freed
mark_mem_object_as_freed(self, object_pointer) ==
    LET marked == object_list_mark_mem_object_as_freed(self.memory, object_pointer)
    IN  [state |-> [self EXCEPT !.memory = marked.memory],
         result |-> marked.result]

\* State::remove_virtual_register
remove_virtual_register(self) ==
    [self EXCEPT !.register =
        Restrict(@, {reg \in DOMAIN @ : ~is_temp(reg)})]

\* readd_caller_objects that takes the caller's object for every identifier
\* the caller knows.
readd_caller_objects_overwrites(self, caller) ==
    [self EXCEPT !.memory = append_unknown_objects(caller.memory, @)]

\* State::readd_caller_objects
readd_caller_objects(self, caller) ==
    [self EXCEPT !.memory = append_unknown_objects(@, caller.memory)]

RECURSIVE restore_callee_saved_register(_, _, _, _)
\* State::restore_callee_saved_register
restore_callee_saved_register(self, caller, callee_saved_register, stack_reg) ==
    IF callee_saved_register = <<>> THEN self
    ELSE LET reg == Head(callee_saved_register)
         IN  restore_callee_saved_register(
                 IF reg # stack_reg
                 THEN set_register(self, reg, get_register(caller, reg))
                 ELSE self,
                 caller, Tail(callee_saved_register), stack_reg)

\* remove_callee_saved_register that skips the stack register.
remove_callee_saved_register_skips_stack(self, callee_saved_register) ==
    [self EXCEPT !.register =
        Restrict(@, DOMAIN @ \ (Range(callee_saved_register) \ {stack_register}))]

\* State::remove_callee_saved_register
remove_callee_saved_register(self, callee_saved_register) ==
    [self EXCEPT !.register =
        Restrict(@, DOMAIN @ \ Range(callee_saved_register))]

\* The register loop of State::merge with the Top test inverted.
merged_register_keeps_top(self, other) ==
    [reg \in {r \in DOMAIN other.register \cap DOMAIN self.register :
                data_is_top(data_merge(self.register[r], other.register[r]))}
        |-> data_merge(self.register[reg], other.register[reg])]

\* The register loop of State::merge that keeps a register known to one
\* operand only.
merged_register_keeps_one_sided(self, other) ==
    [reg \in {r \in DOMAIN other.register \cup DOMAIN self.register :
                ~data_is_top(data_merge(get_register(self, r),
                                        get_register(other, r)))
                \/ r \notin DOMAIN other.register \cap DOMAIN self.register}
        |-> IF reg \notin DOMAIN other.register THEN self.register[reg]
            ELSE IF reg \notin DOMAIN self.register THEN other.register[reg]
            ELSE data_merge(self.register[reg], other.register[reg])]

\* The register loop of State::merge.
merged_register(self, other) ==
    [reg \in {r \in DOMAIN other.register \cap DOMAIN self.register :
                ~data_is_top(data_merge(self.register[r], other.register[r]))}
        |-> data_merge(self.register[reg], other.register[reg])]

\* State::merge without the assertion on the stack identifiers.
merge_without_assertion(self, other) ==
    [state |-> State(merged_register(self, other),
                     object_list_merge(self.memory, other.memory),
                     self.stack_id,
                     self.caller_stack_ids \cup other.caller_stack_ids,
                     self.ids_known_to_caller \cup other.ids_known_to_caller),
     result |-> Ok]

\* State::merge that keeps the identifier sets of self.
merge_keeps_own_ids(self, other) ==
    IF self.stack_id # other.stack_id
    THEN [state |-> self, result |-> Panic]
    ELSE [state |-> State(merged_register(self, other),
                          object_list_merge(self.memory, other.memory),
                          self.stack_id,
                          self.caller_stack_ids,
                          self.ids_known_to_caller),
          result |-> Ok]

\* State::merge (AbstractDomain): the assertion on the stack identifiers
\* panics, otherwise the joined state is returned.
merge(self, other) ==
    IF self.stack_id # other.stack_id
    THEN [state |-> self, result |-> Panic]
    ELSE [state |-> State(merged_register(self, other),
                          object_list_merge(self.memory, other.memory),
                          self.stack_id,
                          self.caller_stack_ids \cup other.caller_stack_ids,
                          self.ids_known_to_caller \cup other.ids_known_to_caller),
          result |-> Ok]

\* ------------------------------------------ variadic parameter locations

\* The size in bytes of the stack register (Variable::mock("RSP", 8)).
stack_register_size == 8

\* create_register_arg
create_register_arg(var, data_type) ==
    [kind |-> "Register", expr |-> Expression(var, 0), data_type |-> data_type]

\* create_stack_arg
create_stack_arg(size, stack_offset, data_type, stack_reg) ==
    [kind |-> "Stack", expr |-> Expression(stack_reg, stack_offset),
     size |-> size, data_type |-> data_type]

integer_class(data_type) == data_type \in {"Integer", "Pointer", "Char"}

RECURSIVE locations_shared_cursor(_, _, _, _, _, _, _)
\* The assignment with one cursor for both register files.
locations_shared_cursor(parameters, integer_register, float_register, integer_used, float_used, stack_offset, stack_reg) ==
    IF parameters = <<>> THEN <<>>
    ELSE LET data_type == Head(parameters)[1]
             size == Head(parameters)[2]
             registers == IF integer_class(data_type)
                          THEN integer_register ELSE float_register
             used == IF integer_class(data_type) THEN integer_used ELSE float_used
         IN  IF used < Len(registers)
             THEN <<create_register_arg(registers[used + 1], data_type)>>
                  \o locations_shared_cursor(Tail(parameters),
                        integer_register, float_register,
                        integer_used + 1, float_used + 1,
                        stack_offset, stack_reg)
             ELSE <<create_stack_arg(size, stack_offset, data_type, stack_reg)>>
                  \o locations_shared_cursor(Tail(parameters),
                        integer_register, float_register,
                        integer_used, float_used,
                        stack_offset + size, stack_reg)

RECURSIVE locations_fixed_slots(_, _, _, _, _, _, _)
\* The assignment with stack slots of the stack register's size.
locations_fixed_slots(parameters, integer_register, float_register, integer_used, float_used, stack_offset, stack_reg) ==
    IF parameters = <<>> THEN <<>>
    ELSE LET data_type == Head(parameters)[1]
             size == Head(parameters)[2]
             registers == IF integer_class(data_type)
                          THEN integer_register ELSE float_register
             used == IF integer_class(data_type) THEN integer_used ELSE float_used
         IN  IF used < Len(registers)
             THEN <<create_register_arg(registers[used + 1], data_type)>>
                  \o locations_fixed_slots(Tail(parameters),
                        integer_register, float_register,
                        IF integer_class(data_type)
                        THEN integer_used + 1 ELSE integer_used,
                        IF integer_class(data_type)
                        THEN float_used ELSE float_used + 1,
                        stack_offset, stack_reg)
             ELSE <<create_stack_arg(size, stack_offset, data_type, stack_reg)>>
                  \o locations_fixed_slots(Tail(parameters),
                        integer_register, float_register,
                        integer_used, float_used,
                        stack_offset + stack_register_size, stack_reg)

RECURSIVE locations(_, _, _, _, _, _, _)
\* The loop of calculate_parameter_locations: each value takes the next
\* unused register of its class, or the next stack slot if none is left.
locations(parameters, integer_register, float_register, integer_used, float_used, stack_offset, stack_reg) ==
    IF parameters = <<>> THEN <<>>
    ELSE LET data_type == Head(parameters)[1]
             size == Head(parameters)[2]
             registers == IF integer_class(data_type)
                          THEN integer_register ELSE float_register
             used == IF integer_class(data_type) THEN integer_used ELSE float_used
         IN  IF used < Len(registers)
             THEN <<create_register_arg(registers[used + 1], data_type)>>
                  \o locations(Tail(parameters),
                        integer_register, float_register,
                        IF integer_class(data_type)
                        THEN integer_used + 1 ELSE integer_used,
                        IF integer_class(data_type)
                        THEN float_used ELSE float_used + 1,
                        stack_offset, stack_reg)
             ELSE <<create_stack_arg(size, stack_offset, data_type, stack_reg)>>
                  \o locations(Tail(parameters),
                        integer_register, float_register,
                        integer_used, float_used,
                        stack_offset + size, stack_reg)

\* calculate_parameter_locations for cpu_arch "x86_64": the fixed parameters
\* up to the format string have used the first integer registers, the first
\* stack slot lies behind the return address.
calculate_parameter_locations(parameters, integer_register, float_register, format_string_index, stack_reg) ==
    locations(parameters, integer_register, float_register,
              format_string_index + 1, 0, stack_register_size, stack_reg)

\* ------------------------------------------------ format string parsing

\* The sizes of DatatypeProperties::mock().
pointer_size == 8
integer_size == 4
double_size == 8

\* The characters between % and the conversion character: flags, width,
\* precision and length modifiers.
ModifierChars ==
    {"-", "+", " ", "#", ".", "0", "1", "2", "3", "4", "5", "6", "7", "8", "9",
     "h", "l", "L"}

PointerConversions == {"s", "p"}
CharConversions == {"c"}
IntegerConversions == {"d", "i", "o", "u", "x", "X"}
DoubleConversions == {"f", "F", "e", "E", "g", "G"}
ConversionChars ==
    PointerConversions \cup CharConversions \cup IntegerConversions
    \cup DoubleConversions

\* Datatype::from: the class of a conversion character.
datatype_from(char) ==
    IF char \in PointerConversions THEN "Pointer"
    ELSE IF char \in CharConversions THEN "Char"
    ELSE IF char \in IntegerConversions THEN "Integer"
    ELSE "Double"

\* DatatypeProperties::get_size_from_data_type
get_size_from_data_type(data_type) ==
    IF data_type = "Pointer" THEN pointer_size
    ELSE IF data_type = "Double" THEN double_size
    ELSE integer_size

\* The position of the first character at or after position i that is not
\* a modifier, Len + 1 if there is none.
RECURSIVE end_of_modifiers(_, _)
end_of_modifiers(chars, i) ==
    IF i > Len(chars) \/ chars[i] \notin ModifierChars THEN i
    ELSE end_of_modifiers(chars, i + 1)

RECURSIVE scan_every_percent(_, _)
\* The scan that takes the second % of %% for the start of a specifier.
scan_every_percent(chars, i) ==
    IF i > Len(chars) THEN <<>>
    ELSE IF chars[i] # "%" THEN scan_every_percent(chars, i + 1)
    ELSE LET end == end_of_modifiers(chars, i + 1)
         IN  IF end > Len(chars) THEN <<>>
             ELSE IF chars[end] \in ConversionChars
                  THEN <<<<datatype_from(chars[end]),
                           get_size_from_data_type(datatype_from(chars[end]))>>>>
                       \o scan_every_percent(chars, end + 1)
                  ELSE scan_every_percent(chars, end)

RECURSIVE scan(_, _)
\* The left to right scan for conversion specifiers from position i: %% is
\* skipped, a specifier runs from % over its modifiers to the conversion
\* character, a specifier the text ends in yields nothing.
scan(chars, i) ==
    IF i > Len(chars) THEN <<>>
    ELSE IF chars[i] # "%" THEN scan(chars, i + 1)
    ELSE IF i < Len(chars) /\ chars[i + 1] = "%" THEN scan(chars, i + 2)
    ELSE LET end == end_of_modifiers(chars, i + 1)
         IN  IF end > Len(chars) THEN <<>>
             ELSE IF chars[end] \in ConversionChars
                  THEN <<<<datatype_from(chars[end]),
                           get_size_from_data_type(datatype_from(chars[end]))>>>>
                       \o scan(chars, end + 1)
                  ELSE scan(chars, end)

\* parse_format_string_parameters: the (data type, size) of each conversion.
parse_format_string_parameters(format_string) == scan(format_string, 1)

\* get_input_format_string: the format string parameter must be a register
\* holding exactly one address, and the address must be mapped.
get_input_format_string(pi_state, parameters, format_string_index, mem_image) ==
    IF format_string_index + 1 \notin DOMAIN parameters
       \/ parameters[format_string_index + 1].kind # "Register"
    THEN Err("Format string not in register")
    ELSE LET address == get_register(pi_state,
                            parameters[format_string_index + 1].expr.var)
         IN  IF address.kind # "Value" \/ Cardinality(address.value) # 1
             THEN Err("Format string address not unique")
             ELSE IF Min(address.value) \notin DOMAIN mem_image
                  THEN Err("Format string not in memory")
                  ELSE OkValue(mem_image[Min(address.value)])

\* get_variable_parameters that returns the declared parameters followed by
\* the variadic ones.
get_variable_parameters_with_declared(pi_state, symbol, format_string_index_map, mem_image, cconv) ==
    IF symbol.name \notin DOMAIN format_string_index_map THEN OkValue(<<>>)
    ELSE LET format_string_index == format_string_index_map[symbol.name]
             format_string == get_input_format_string(pi_state,
                                  symbol.parameters, format_string_index, mem_image)
         IN  IF format_string.kind = "Err" THEN format_string
             ELSE OkValue(symbol.parameters
                          \o calculate_parameter_locations(
                                 parse_format_string_parameters(format_string.value),
                                 cconv.integer_parameter_register,
                                 cconv.float_parameter_register,
                                 format_string_index, stack_register))

\* get_variable_parameters: the Args of the values the format string asks
\* for; a symbol without an entry in the index map has none.
get_variable_parameters(pi_state, symbol, format_string_index_map, mem_image, cconv) ==
    IF symbol.name \notin DOMAIN format_string_index_map THEN OkValue(<<>>)
    ELSE LET format_string_index == format_string_index_map[symbol.name]
             format_string == get_input_format_string(pi_state,
                                  symbol.parameters, format_string_index, mem_image)
         IN  IF format_string.kind = "Err" THEN format_string
             ELSE OkValue(calculate_parameter_locations(
                              parse_format_string_parameters(format_string.value),
                              cconv.integer_parameter_register,
                              cconv.float_parameter_register,
                              format_string_index, stack_register))

\* ------------------------------------------------------- the state machine

VARIABLES
    state,          \* the State the operations act on (self)
    caller_state,   \* a State saved earlier: the caller's, or a join operand
    pre,            \* the value of state before the last operation
    op,             \* the last operation
    args,           \* its inputs
    result,         \* its return value
    steps           \* the number of operations applied so far

vars == <<state, caller_state, pre, op, args, result, steps>>

\* The stack identifiers of the functions.
StackIds == {AbstractIdentifier(tid, stack_register) : tid \in Tids}

\* Values a transfer function stores into a register or a memory cell.
DataInputs ==
    {Top, Value({0}),
     from_target(AbstractIdentifier(1, stack_register), {0}),
     from_target(AbstractIdentifier(1, callee_saved), {0})}

\* Pointer values handed to mark_mem_object_as_freed: one target, or the
\* stack and the parameter object of one function.
PointerInputs ==
    {from_target(id, {0}) : id \in AbstractIdentifiers}
    \cup {Pointer({<<AbstractIdentifier(tid, stack_register), {0}>>,
                    <<AbstractIdentifier(tid, callee_saved), {0}>>}) : tid \in Tids}

\* Address expressions of stores.
AddressInputs ==
    {Expression(stack_register, 0), Expression(callee_saved, 0)}

\* Arguments of extern symbols.
ArgInputs ==
    {ArgRegister(callee_saved), ArgStack(Expression(stack_register, 0)),
     ArgStack(Expression(callee_saved, 0)), ArgStack(Expression(callee_saved, 1))}

\* Parameter lists of extern symbols: at most n parameters, no two alike.
ParameterInputs(n) ==
    UNION {{list \in [1..k -> ArgInputs] :
              \A i, j \in 1..k : i # j => list[i] # list[j]} : k \in 0..n}

\* The writeable addresses of the RuntimeMemoryImage.
GlobalMemoryInputs == {{}, {0}}

\* Lists of callee-saved registers of a calling convention.
CalleeSavedInputs ==
    {<<callee_saved>>, <<stack_register, callee_saved>>}

\* The address field of a callee Tid: hexadecimal literals, the placeholder
\* of symbols without an address, and malformed literals.
TidAddressInputs ==
    {<<"1">>, <<"1", "0">>, <<"+", "f">>,
     <<"U", "N", "K", "N", "O", "W", "N">>, <<>>, <<"0", "x", "1">>}

\* States at function entry.
InitialStates ==
    {new(stack_register, tid) : tid \in Tids}
    \cup {new_with_generic_parameter_objects(stack_register, tid, <<callee_saved>>)
            : tid \in Tids}

NoArgs == [none |-> TRUE]

Init ==
    /\ state \in InitialStates
    /\ caller_state \in InitialStates
    /\ pre = state
    /\ op = "new"
    /\ args = NoArgs
    /\ result = Ok
    /\ steps = 0

\* An operation is applied: the bookkeeping common to all actions.
Applied(name, inputs, new_state, returned) ==
    /\ steps < MaxSteps
    /\ result.kind # "Panic"
    /\ state' = new_state
    /\ pre' = state
    /\ op' = name
    /\ args' = inputs
    /\ result' = returned
    /\ steps' = steps + 1

\* The driver saves the state (State::clone), e.g. at a call site.
SaveCallerState ==
    /\ Applied("clone", NoArgs, state, Ok)
    /\ caller_state' = state

\* A transfer function sets a register.
SetRegister ==
    \E var \in Registers, value \in DataInputs :
        /\ Applied("set_register", [variable |-> var, value |-> value],
                   set_register(state, var, value), Ok)
        /\ UNCHANGED caller_state

\* A transfer function stores a value.
WriteToAddress ==
    \E address \in AddressInputs, value \in DataInputs :
        LET written == write_to_address(state, address, value, {})
        IN  /\ Applied("write_to_address", [address |-> address, value |-> value],
                       written.state, written.result)
            /\ UNCHANGED caller_state

\* The driver records a caller stack frame of the state.
AddCallerStackId ==
    \E id \in StackIds :
        /\ Applied("caller_stack_ids", [id |-> id],
                   [state EXCEPT !.caller_stack_ids = @ \cup {id}], Ok)
        /\ UNCHANGED caller_state

\* The driver records an object known to the caller.
AddIdKnownToCaller ==
    \E id \in AbstractIdentifiers :
        /\ Applied("ids_known_to_caller", [id |-> id],
                   [state EXCEPT !.ids_known_to_caller = @ \cup {id}], Ok)
        /\ UNCHANGED caller_state

\* The driver joins the state with the saved one, either of them being self;
\* a failed assertion returns no state.
Merge ==
    \E self_is_state \in BOOLEAN :
        LET merged == IF self_is_state THEN merge(state, caller_state)
                      ELSE merge(caller_state, state)
        IN  /\ Applied("merge", [self_is_state |-> self_is_state],
                       IF merged.result.kind = "Panic" THEN state ELSE merged.state,
                       merged.result)
            /\ UNCHANGED caller_state

\* The driver fixes the link register at a call (MIPS).
SetMipsLinkRegister ==
    \E callee_address \in TidAddressInputs :
        LET set == set_mips_link_register(state, callee_address)
        IN  /\ Applied("set_mips_link_register",
                       [callee_address |-> callee_address],
                       set.state, set.result)
            /\ UNCHANGED caller_state

ClearNonCalleeSavedRegister ==
    \E list \in CalleeSavedInputs :
        /\ Applied("clear_non_callee_saved_register",
                   [callee_saved_register |-> list],
                   clear_non_callee_saved_register(state, list), Ok)
        /\ UNCHANGED caller_state

\* clear_stack_parameter for an extern symbol of at most n parameters.
ClearStackParameterOf(n, images) ==
    \E parameters \in ParameterInputs(n), global_memory \in images :
        LET cleared == clear_stack_parameter(state, parameters, global_memory)
        IN  /\ Applied("clear_stack_parameter",
                       [parameters |-> parameters, global_memory |-> global_memory],
                       cleared.state, cleared.result)
            /\ UNCHANGED caller_state

ClearStackParameter == ClearStackParameterOf(1, {{}})

ClearStackParameterOfSymbol == ClearStackParameterOf(MaxParams, GlobalMemoryInputs)

RemoveUnreferencedObjects ==
    /\ Applied("remove_unreferenced_objects", NoArgs,
               remove_unreferenced_objects(state), Ok)
    /\ UNCHANGED caller_state

MergeCalleeStackToCallerStack ==
    \E callee_id \in StackIds, caller_id \in StackIds,
       offset_adjustment \in Bitvectors :
        /\ Applied("merge_callee_stack_to_caller_stack",
                   [callee_id |-> callee_id, caller_id |-> caller_id,
                    offset_adjustment |-> offset_adjustment],
                   merge_callee_stack_to_caller_stack(
                       state, callee_id, caller_id, offset_adjustment),
                   Ok)
        /\ UNCHANGED caller_state

MarkMemObjectAsFreed ==
    \E object_pointer \in PointerInputs :
        LET marked == mark_mem_object_as_freed(state, object_pointer)
        IN  /\ Applied("mark_mem_object_as_freed",
                       [object_pointer |-> object_pointer],
                       marked.state, marked.result)
            /\ UNCHANGED caller_state

RemoveVirtualRegister ==
    /\ Applied("remove_virtual_register", NoArgs,
               remove_virtual_register(state), Ok)
    /\ UNCHANGED caller_state

ReaddCallerObjects ==
    /\ Applied("readd_caller_objects", NoArgs,
               readd_caller_objects(state, caller_state), Ok)
    /\ UNCHANGED caller_state

RestoreCalleeSavedRegister ==
    \E list \in CalleeSavedInputs :
        /\ Applied("restore_callee_saved_register",
                   [callee_saved_register |-> list],
                   restore_callee_saved_register(
                       state, caller_state, list, stack_register),
                   Ok)
        /\ UNCHANGED caller_state

RemoveCalleeSavedRegister ==
    \E list \in CalleeSavedInputs :
        /\ Applied("remove_callee_saved_register",
                   [callee_saved_register |-> list],
                   remove_callee_saved_register(state, list), Ok)
        /\ UNCHANGED caller_state

Next ==
    \/ SaveCallerState
    \/ SetRegister
    \/ WriteToAddress
    \/ AddCallerStackId
    \/ AddIdKnownToCaller
    \/ Merge
    \/ SetMipsLinkRegister
    \/ ClearNonCalleeSavedRegister
    \/ ClearStackParameter
    \/ RemoveUnreferencedObjects
    \/ MergeCalleeStackToCallerStack
    \/ MarkMemObjectAsFreed
    \/ RemoveVirtualRegister
    \/ ReaddCallerObjects
    \/ RestoreCalleeSavedRegister
    \/ RemoveCalleeSavedRegister

Spec == Init /\ [][Next]_vars

\* Extern calls with stack parameters: stores and register updates followed
\* by clear_stack_parameter for symbols of up to MaxParams parameters.
InitCall ==
    /\ Init
    /\ caller_state = state

NextCall ==
    \/ SetRegister
    \/ WriteToAddress
    \/ ClearStackParameterOfSymbol

SpecCall == InitCall /\ [][NextCall]_vars

\* ------------------------------------------------------------- properties

\* The identifiers a state protects from garbage collection by itself.
protected_ids(self) ==
    {self.stack_id} \cup self.caller_stack_ids \cup self.ids_known_to_caller

\* The register map without its Top entries.
non_top(register) ==
    Restrict(register, {reg \in DOMAIN register : ~data_is_top(register[reg])})

\* C1: merge of two states with different stack_id ends in the assertion
\* failure for every pair of states; no merged state is returned.
C1_MergeDifferentStackIdsPanics ==
    (op = "merge" /\ pre.stack_id # caller_state.stack_id)
        => (result.kind = "Panic" /\ state = pre)

C1_Witness ==
    /\ op = "merge"
    /\ pre.stack_id # caller_state.stack_id
    /\ result.kind = "Panic"
    /\ steps = MaxSteps

\* C2: merge is idempotent: merge(s, s) has the register map of s without
\* its Top entries, and the memory, stack_id, caller_stack_ids and
\* ids_known_to_caller of s.
C2_MergeIdempotent ==
    (op = "merge" /\ pre = caller_state)
        => /\ result.kind = "Ok"
           /\ state.register = non_top(pre.register)
           /\ state.memory = pre.memory
           /\ state.stack_id = pre.stack_id
           /\ state.caller_stack_ids = pre.caller_stack_ids
           /\ state.ids_known_to_caller = pre.ids_known_to_caller

C2_Witness ==
    /\ op = "merge"
    /\ pre = caller_state
    /\ result.kind = "Ok"
    /\ Cardinality(DOMAIN pre.register) >= 2
    /\ Cardinality(DOMAIN pre.memory) >= 2
    /\ \E id \in DOMAIN pre.memory : pre.memory[id].memory # EmptyMap

\* C3: remove_unreferenced_objects keeps every object whose identifier is
\* the stack_id, a caller stack id or an id known to the caller, whatever
\* the registers hold; every removed object is outside the closure seeded by
\* the registers and those identifiers.
C3_ProtectedObjectsKept ==
    op = "remove_unreferenced_objects"
        => /\ \A id \in DOMAIN pre.memory \cap protected_ids(pre) :
                id \in DOMAIN state.memory /\ state.memory[id] = pre.memory[id]
           /\ \A id \in DOMAIN pre.memory \ DOMAIN state.memory :
                id \notin reachable_ids(pre.memory,
                              register_referenced_ids(pre) \cup protected_ids(pre))
           /\ DOMAIN state.memory \subseteq DOMAIN pre.memory

\* An object is kept only because the caller knows it, another is removed.
C3_Witness ==
    /\ op = "remove_unreferenced_objects"
    /\ DOMAIN state.memory # DOMAIN pre.memory
    /\ \E id \in pre.ids_known_to_caller \cap DOMAIN state.memory :
          id \notin reachable_ids(pre.memory,
                        register_referenced_ids(pre) \cup {pre.stack_id}
                        \cup pre.caller_stack_ids)

\* merge_callee_stack_to_caller_stack is applied to the current stack_id and
\* names no other tracked object as the caller's.
dangling_stack_merge ==
    /\ op = "merge_callee_stack_to_caller_stack"
    /\ args.callee_id = pre.stack_id
    /\ (args.caller_id = args.callee_id \/ args.caller_id \notin DOMAIN pre.memory)

\* C4 as stated: in every reachable state the object list holds an object
\* keyed by the current stack_id.
C4_StackObjectAlwaysPresent == state.stack_id \in DOMAIN state.memory

\* C4, amended: every operation keeps the object of the current stack_id in
\* the object list, except merge_callee_stack_to_caller_stack applied to the
\* current stack_id with a caller_id that is the callee_id or has no object.
C4_StackObjectPresentUnlessDanglingMerge ==
    /\ op = "new" => state.stack_id \in DOMAIN state.memory
    /\ (pre.stack_id \in DOMAIN pre.memory /\ ~dangling_stack_merge)
          => state.stack_id \in DOMAIN state.memory

\* The current stack frame is merged into a tracked caller frame.
C4_Witness ==
    /\ op = "merge_callee_stack_to_caller_stack"
    /\ args.callee_id = pre.stack_id
    /\ args.caller_id # args.callee_id
    /\ args.caller_id \in DOMAIN pre.memory
    /\ state.stack_id = args.caller_id
    /\ state.stack_id \in DOMAIN state.memory

\* after is before with its reference to callee_id, if any, turned into one
\* to caller_id whose offset is shifted by offset_adjustment.
reference_moved(before, after, callee_id, caller_id, offset_adjustment) ==
    IF callee_id \in referenced_ids(before)
    THEN /\ after.kind = "Pointer"
         /\ referenced_ids(after) =
                (referenced_ids(before) \ {callee_id}) \cup {caller_id}
         /\ target_offset(after, caller_id) =
                value_add(target_offset(before, callee_id), offset_adjustment)
         /\ \A id \in referenced_ids(after) \ {caller_id} :
                target_offset(after, id) = target_offset(before, id)
    ELSE after = before

\* C5: after merge_callee_stack_to_caller_stack with callee_id # caller_id
\* no object is keyed by callee_id, no register and no remaining object
\* refers to callee_id, every such reference now targets caller_id with its
\* offset shifted, and nothing of the callee object is copied to the caller's.
C5_CalleeStackMerged ==
    (op = "merge_callee_stack_to_caller_stack" /\ args.callee_id # args.caller_id)
        => /\ args.callee_id \notin DOMAIN state.memory
           /\ DOMAIN state.memory = DOMAIN pre.memory \ {args.callee_id}
           /\ DOMAIN state.register = DOMAIN pre.register
           /\ \A reg \in DOMAIN state.register :
                /\ args.callee_id \notin referenced_ids(state.register[reg])
                /\ reference_moved(pre.register[reg], state.register[reg],
                       args.callee_id, args.caller_id, args.offset_adjustment)
           /\ \A id \in DOMAIN state.memory :
                /\ args.callee_id \notin object_referenced_ids(state.memory[id])
                /\ state.memory[id].type = pre.memory[id].type
                /\ state.memory[id].state = pre.memory[id].state
                /\ DOMAIN state.memory[id].memory = DOMAIN pre.memory[id].memory
                /\ \A o \in DOMAIN state.memory[id].memory :
                      reference_moved(pre.memory[id].memory[o],
                                      state.memory[id].memory[o],
                                      args.callee_id, args.caller_id,
                                      args.offset_adjustment)

\* The callee object had content, and a register and a remaining object
\* referred to it; the reference is shifted by a non-zero adjustment.
C5_Witness ==
    /\ op = "merge_callee_stack_to_caller_stack"
    /\ args.callee_id # args.caller_id
    /\ args.offset_adjustment # 0
    /\ args.callee_id \in DOMAIN pre.memory
    /\ \E reg \in DOMAIN pre.register :
          args.callee_id \in referenced_ids(pre.register[reg])
    /\ \E id \in DOMAIN state.memory :
          args.callee_id \in object_referenced_ids(pre.memory[id])

\* C6: mark_mem_object_as_freed never aborts and removes no object; one
\* candidate becomes Freed, several candidates become Unknown; the error list
\* holds exactly the candidates that were Freed before, and the marking is
\* applied also when it is not empty.
C6_MarkFreedNeverFails ==
    op = "mark_mem_object_as_freed"
        => LET ids == referenced_ids(args.object_pointer) \cap DOMAIN pre.memory
               already == {id \in ids : pre.memory[id].state = "Freed"}
           IN  /\ result.kind # "Panic"
               /\ DOMAIN state.memory = DOMAIN pre.memory
               /\ \A id \in ids :
                    state.memory[id].state =
                        IF Cardinality(ids) = 1 THEN "Freed" ELSE "Unknown"
               /\ \A id \in DOMAIN pre.memory \ ids :
                    state.memory[id] = pre.memory[id]
               /\ (already = {} => result.kind = "Ok")
               /\ (already # {} => result = Err(already))

\* Two candidates, one of them freed before: both become Unknown and the
\* freed one is reported.
C6_Witness ==
    /\ op = "mark_mem_object_as_freed"
    /\ result.kind = "Err"
    /\ Cardinality(referenced_ids(args.object_pointer) \cap DOMAIN pre.memory) = 2
    /\ \E id \in referenced_ids(args.object_pointer) \cap DOMAIN pre.memory :
          pre.memory[id].state = "Live" /\ state.memory[id].state = "Unknown"

RECURSIVE state_after_writes(_, _, _, _)
\* The state after the first n parameters: each stack parameter's address is
\* written with Top in turn, a failed write leaves the state as it is.
state_after_writes(self, parameters, global_memory, n) ==
    IF n = 0 THEN self
    ELSE LET before == state_after_writes(self, parameters, global_memory, n - 1)
         IN  IF parameters[n].kind = "Stack"
             THEN write_to_address(before, parameters[n].expr, Top,
                                   global_memory).state
             ELSE before

\* The result of the write for the n-th parameter.
result_of_write(self, parameters, global_memory, n) ==
    write_to_address(state_after_writes(self, parameters, global_memory, n - 1),
                     parameters[n].expr, Top, global_memory).result

\* The stack parameters whose write fails.
failed_writes(self, parameters, global_memory) ==
    {n \in DOMAIN parameters :
        /\ parameters[n].kind = "Stack"
        /\ result_of_write(self, parameters, global_memory, n).kind = "Err"}

\* C7: clear_stack_parameter writes Top to every Arg::Stack parameter in
\* declaration order and does not stop at a failed write; register
\* parameters cause no write; the result is Ok iff no write failed, else the
\* error of the last failing write.
C7_ClearStackParameterLastError ==
    op = "clear_stack_parameter"
        => LET failed == failed_writes(pre, args.parameters, args.global_memory)
           IN  /\ state = state_after_writes(pre, args.parameters,
                              args.global_memory, Len(args.parameters))
               /\ (failed = {} <=> result.kind = "Ok")
               /\ failed # {}
                    => result = result_of_write(pre, args.parameters,
                                    args.global_memory, Max(failed))

\* Two failing writes with different errors, and after the first of them a
\* write that succeeds and changes an object.
C7_Witness ==
    /\ op = "clear_stack_parameter"
    /\ LET failed == failed_writes(pre, args.parameters, args.global_memory)
       IN  /\ Cardinality(failed) = 2
           /\ result # result_of_write(pre, args.parameters,
                           args.global_memory, Min(failed))
           /\ \E n \in DOMAIN args.parameters :
                /\ Min(failed) < n
                /\ n \notin failed
                /\ state_after_writes(pre, args.parameters, args.global_memory, n)
                     # state_after_writes(pre, args.parameters,
                                          args.global_memory, n - 1)

\* ---------------------------------------- calculate_parameter_locations

\* The parameter registers of the calling conventions of the tests.
IntegerParameterRegister == <<"RDI", "RSI", "R8", "R9">>
FloatParameterRegister == <<"XMM0", "XMM1">>

\* A value of a format string: its data type and its size in bytes.
FormatInputs ==
    {<<"Integer", 8>>, <<"Integer", 4>>, <<"Char", 4>>, <<"Pointer", 8>>,
     <<"Double", 16>>}

\* The inputs of calculate_parameter_locations: the format string is itself
\* passed in an integer parameter register.
CallInputs ==
    [parameters : UNION {[1..n -> FormatInputs] : n \in 0..MaxVarArgs},
     integer_parameter_register :
        {SubSeq(IntegerParameterRegister, 1, n) :
            n \in 1..Len(IntegerParameterRegister)},
     float_parameter_register :
        {SubSeq(FloatParameterRegister, 1, n) :
            n \in 0..Len(FloatParameterRegister)},
     format_string_index : 0..MaxFormatIndex]

InitArguments ==
    /\ state = new(stack_register, 1)
    /\ caller_state = state
    /\ pre = state
    /\ op = "call"
    /\ args \in {input \in CallInputs :
                   input.format_string_index < Len(input.integer_parameter_register)}
    /\ result = Ok
    /\ steps = 0

CalculateParameterLocations ==
    /\ op = "call"
    /\ op' = "calculate_parameter_locations"
    /\ result' = [kind |-> "Ok",
                  var_args |-> calculate_parameter_locations(
                                   args.parameters,
                                   args.integer_parameter_register,
                                   args.float_parameter_register,
                                   args.format_string_index,
                                   stack_register)]
    /\ steps' = steps + 1
    /\ UNCHANGED <<state, caller_state, pre, args>>

SpecArguments == InitArguments /\ [][CalculateParameterLocations]_vars

\* The number of values of the given classes among the first n parameters.
count_before(parameters, n, classes) ==
    Cardinality({i \in 1..n : parameters[i][1] \in classes})

IntegerClasses == {"Integer", "Pointer", "Char"}

\* The register a value is entitled to: <<>> if its class has none left.
register_for(input, n) ==
    LET data_type == input.parameters[n][1]
        position ==
            IF data_type \in IntegerClasses
            THEN input.format_string_index + 1
                 + count_before(input.parameters, n - 1, IntegerClasses)
            ELSE count_before(input.parameters, n - 1, {"Double"})
        registers == IF data_type \in IntegerClasses
                     THEN input.integer_parameter_register
                     ELSE input.float_parameter_register
    IN  IF position < Len(registers) THEN <<registers[position + 1]>> ELSE <<>>

\* C9: the two register cursors are independent: the k-th integer-class
\* value gets the (format_string_index + 1 + k)-th integer parameter
\* register if it exists, the k-th Double the k-th float parameter register
\* if it exists, whatever the interleaving.
C9_IndependentRegisterCursors ==
    op = "calculate_parameter_locations"
        => /\ Len(result.var_args) = Len(args.parameters)
           /\ \A n \in DOMAIN args.parameters :
                LET arg == result.var_args[n]
                    register == register_for(args, n)
                IN  /\ arg.data_type = args.parameters[n][1]
                    /\ (register # <<>>) <=> (arg.kind = "Register")
                    /\ register # <<>> => arg.expr = Expression(register[1], 0)

\* The case of the test: R8, XMM0, R9.
C9_Witness ==
    /\ op = "calculate_parameter_locations"
    /\ args.integer_parameter_register = <<"RDI", "RSI", "R8", "R9">>
    /\ args.float_parameter_register = <<"XMM0">>
    /\ args.format_string_index = 1
    /\ args.parameters = <<<<"Integer", 8>>, <<"Double", 16>>, <<"Pointer", 8>>>>
    /\ result.var_args = <<create_register_arg("R8", "Integer"),
                           create_register_arg("XMM0", "Double"),
                           create_register_arg("R9", "Pointer")>>

\* The stack arguments of the result, in output order.
stack_arguments(var_args) == SelectSeq(var_args, LAMBDA arg : arg.kind = "Stack")

\* C10: a value whose class has no unused register left becomes an
\* Arg::Stack at stack_register + offset with its own size and data type;
\* the first offset is 8, each further one is the previous offset plus the
\* previous size.
C10_StackArgumentsContiguous ==
    op = "calculate_parameter_locations"
        => /\ Len(result.var_args) = Len(args.parameters)
           /\ \A n \in DOMAIN args.parameters :
                register_for(args, n) = <<>>
                    => /\ result.var_args[n].kind = "Stack"
                       /\ result.var_args[n].expr.var = stack_register
                       /\ result.var_args[n].size = args.parameters[n][2]
                       /\ result.var_args[n].data_type = args.parameters[n][1]
           /\ LET on_stack == stack_arguments(result.var_args)
              IN  /\ on_stack # <<>> => on_stack[1].expr.const = 8
                  /\ \A i \in 2..Len(on_stack) :
                        on_stack[i].expr.const =
                            on_stack[i - 1].expr.const + on_stack[i - 1].size

\* The cases of the tests: sizes 4, 4 at RSP+8 and RSP+12, and a pointer at
\* RSP+8 behind three register arguments.
C10_Witness ==
    /\ op = "calculate_parameter_locations"
    /\ args.integer_parameter_register = <<"RDI">>
    /\ args.format_string_index = 0
    /\ args.parameters = <<<<"Char", 4>>, <<"Integer", 4>>>>
    /\ result.var_args = <<create_stack_arg(4, 8, "Char", stack_register),
                           create_stack_arg(4, 12, "Integer", stack_register)>>

\* The callee-saved registers of the last operation's calling convention.
listed == Range(args.callee_saved_register)

\* C8 as stated: restore_callee_saved_register and
\* remove_callee_saved_register both leave the entry of a listed stack
\* register as it was, every other listed register holds the caller's value
\* (restore) or is absent (remove).
C8_BothSkipStackRegister ==
    (op \in {"restore_callee_saved_register", "remove_callee_saved_register"}
     /\ stack_register \in listed)
        => /\ get_register(state, stack_register) = get_register(pre, stack_register)
           /\ \A reg \in listed \ {stack_register} :
                get_register(state, reg) =
                    IF op = "restore_callee_saved_register"
                    THEN get_register(caller_state, reg) ELSE Top

\* C8, amended: restore_callee_saved_register leaves the stack register as
\* it was and gives every other listed register the caller's value;
\* remove_callee_saved_register removes every listed register, the stack
\* register included; registers that are not listed keep their value.
C8_RestoreSkipsStackRemoveDoesNot ==
    /\ op = "restore_callee_saved_register"
        => /\ get_register(state, stack_register) = get_register(pre, stack_register)
           /\ \A reg \in listed \ {stack_register} :
                get_register(state, reg) = get_register(caller_state, reg)
           /\ \A reg \in Registers \ listed :
                get_register(state, reg) = get_register(pre, reg)
    /\ op = "remove_callee_saved_register"
        => /\ \A reg \in listed : reg \notin DOMAIN state.register
           /\ \A reg \in Registers \ listed :
                get_register(state, reg) = get_register(pre, reg)

\* remove_callee_saved_register removes a known stack register value.
C8_Witness ==
    /\ op = "remove_callee_saved_register"
    /\ stack_register \in listed
    /\ stack_register \in DOMAIN pre.register
    /\ stack_register \notin DOMAIN state.register

\* The registers two states know of.
known_registers(a, b) ==
    Registers \cup {link_register} \cup DOMAIN a.register \cup DOMAIN b.register

\* C14: after merge(a, b) of states with equal stack_id every register holds
\* the join of its values in a and in b, a missing register read as Top; a
\* register of one operand only and a register whose join is Top are missing
\* from the merged map.
C14_MergedRegisterIsJoin ==
    (op = "merge" /\ pre.stack_id = caller_state.stack_id)
        => \A r \in known_registers(pre, caller_state) :
            LET join == data_merge(get_register(pre, r),
                                   get_register(caller_state, r))
            IN  /\ get_register(state, r) = join
                /\ data_is_top(join) => r \notin DOMAIN state.register
                /\ (r \in DOMAIN pre.register) # (r \in DOMAIN caller_state.register)
                       => r \notin DOMAIN state.register

C14_Witness ==
    /\ op = "merge"
    /\ pre.stack_id = caller_state.stack_id
    /\ \E r \in DOMAIN state.register :
           /\ pre.register[r] # caller_state.register[r]
           /\ state.register[r] # pre.register[r]
           /\ state.register[r] # caller_state.register[r]
    /\ \E r \in DOMAIN pre.register : r \notin DOMAIN caller_state.register

\* C15: merge(a, b) of states with equal stack_id has the union of the
\* caller_stack_ids, the union of the ids_known_to_caller and the common
\* stack_id, so every identifier either operand protects stays protected.
C15_MergedIdSetsAreUnions ==
    (op = "merge" /\ pre.stack_id = caller_state.stack_id)
        => /\ result.kind = "Ok"
           /\ state.caller_stack_ids =
                  pre.caller_stack_ids \cup caller_state.caller_stack_ids
           /\ state.ids_known_to_caller =
                  pre.ids_known_to_caller \cup caller_state.ids_known_to_caller
           /\ state.stack_id = pre.stack_id
           /\ protected_ids(pre) \cup protected_ids(caller_state)
                  \subseteq protected_ids(state)

C15_Witness ==
    /\ op = "merge"
    /\ pre.stack_id = caller_state.stack_id
    /\ result.kind = "Ok"
    /\ ~args.self_is_state
    /\ pre.caller_stack_ids \ caller_state.caller_stack_ids # {}
    /\ pre.ids_known_to_caller \ caller_state.ids_known_to_caller # {}

\* C16: after clear_non_callee_saved_register(L) the register map holds
\* exactly the registers of L that were not Top before, with their values;
\* the registers outside L, the temporary ones among them, are gone; the
\* rest of the state is as before.
C16_OnlyCalleeSavedRegistersKept ==
    op = "clear_non_callee_saved_register"
        => LET L == Range(args.callee_saved_register)
           IN  /\ DOMAIN state.register =
                      {r \in L : ~data_is_top(get_register(pre, r))}
               /\ \A r \in DOMAIN state.register :
                      state.register[r] = pre.register[r]
               /\ \A r \in known_registers(pre, state) :
                      (r \notin L \/ is_temp(r)) => r \notin DOMAIN state.register
               /\ state.memory = pre.memory
               /\ state.stack_id = pre.stack_id
               /\ state.caller_stack_ids = pre.caller_stack_ids
               /\ state.ids_known_to_caller = pre.ids_known_to_caller

C16_Witness ==
    /\ op = "clear_non_callee_saved_register"
    /\ virtual_register \in DOMAIN pre.register
    /\ stack_register \in DOMAIN pre.register
    /\ stack_register \notin Range(args.callee_saved_register)
    /\ DOMAIN state.register = {callee_saved}

\* C17: after self.readd_caller_objects(caller) the objects the caller has
\* and self had not are in self.memory as the caller has them, the objects
\* self had are as they were, also where the caller's differ, and nothing
\* else of self or of the caller changes.
C17_CallerObjectsAdded ==
    [][op' = "readd_caller_objects"
        => /\ DOMAIN state'.memory = DOMAIN state.memory \cup DOMAIN caller_state.memory
           /\ \A id \in DOMAIN caller_state.memory \ DOMAIN state.memory :
                  state'.memory[id] = caller_state.memory[id]
           /\ \A id \in DOMAIN state.memory : state'.memory[id] = state.memory[id]
           /\ state'.register = state.register
           /\ state'.stack_id = state.stack_id
           /\ state'.caller_stack_ids = state.caller_stack_ids
           /\ state'.ids_known_to_caller = state.ids_known_to_caller
           /\ caller_state' = caller_state]_vars

C17_Witness ==
    /\ op = "readd_caller_objects"
    /\ DOMAIN caller_state.memory \ DOMAIN pre.memory # {}
    /\ \E id \in DOMAIN pre.memory \cap DOMAIN caller_state.memory :
           pre.memory[id] # caller_state.memory[id]

\* C19: no entry of the register map holds Top in any reachable state, so
\* a state that agrees with another on the value of every register (a
\* missing register read as Top) has the same register map.
C19_RegisterMapIsSparse ==
    /\ \A r \in DOMAIN state.register : ~data_is_top(state.register[r])
    /\ (\A r \in known_registers(state, caller_state) :
            get_register(state, r) = get_register(caller_state, r))
           => state.register = caller_state.register

C19_Witness ==
    /\ op = "merge"
    /\ result.kind = "Ok"
    /\ link_register \in DOMAIN pre.register
    /\ \E r \in DOMAIN pre.register \cap DOMAIN caller_state.register :
           r \notin DOMAIN state.register

\* ------------------------------------------- extern symbols and their Args

\* The return register of the mocked calling conventions.
return_register == "RAX"

\* Args of an extern symbol: plain registers, a sub-register and stack slots.
SymbolArgInputs ==
    {ArgRegisterOf(ExprVar(return_register)),
     ArgRegisterOf(ExprVar(callee_saved)),
     ArgRegisterOf(ExprSubpiece(ExprVar(return_register))),
     ArgStackOf(plus_const(ExprVar(stack_register), 1))}

ArgLists == UNION {[1..n -> SymbolArgInputs] : n \in 0..MaxParams}

\* The parameters and return_values of an ExternSymbol.
SymbolInputs == [parameters : ArgLists, return_values : ArgLists]

BinOpInputs == {"IntAdd", "IntSub"}
UnOpInputs == {"Int2Comp"}

ExpressionLeaves ==
    {ExprVar(stack_register), ExprVar(callee_saved),
     ExprConst(0), ExprConst(1), ExprConst(OffsetModulus - 1),
     ExprSubpiece(ExprVar(stack_register)), ExprUnknown}

RECURSIVE ExpressionInputs(_)
\* Expressions nested up to the given depth, one operand of a binary
\* operator being a leaf.
ExpressionInputs(depth) ==
    IF depth = 0 THEN ExpressionLeaves
    ELSE LET inner == ExpressionInputs(depth - 1)
         IN  inner
             \cup {ExprBinOp(o, l, r) :
                     o \in BinOpInputs, l \in inner, r \in ExpressionLeaves}
             \cup {ExprBinOp(o, l, r) :
                     o \in BinOpInputs, l \in ExpressionLeaves, r \in inner}
             \cup {ExprUnOp(o, a) : o \in UnOpInputs, a \in inner}

\* An Arg and the stack register its offset is evaluated against.
StackOffsetInputs ==
    [arg : {ArgStackOf(e) : e \in ExpressionInputs(MaxExprDepth)}
           \cup {ArgRegisterOf(e) : e \in ExpressionLeaves},
     stack_register : {stack_register, callee_saved}]

InitSymbol ==
    /\ state = new(stack_register, 1)
    /\ caller_state = state
    /\ pre = state
    /\ \/ op = "ExternSymbol" /\ args \in SymbolInputs
       \/ op = "Arg" /\ args \in StackOffsetInputs
    /\ result = Ok
    /\ steps = 0

\* A pure function is applied to the inputs.
Returned(name, returned) ==
    /\ op' = name
    /\ result' = returned
    /\ steps' = steps + 1
    /\ UNCHANGED <<state, caller_state, pre, args>>

GetUniqueReturnRegister ==
    /\ op = "ExternSymbol"
    /\ Returned("get_unique_return_register",
                get_unique_return_register(args.return_values))

GetUniqueParameter ==
    /\ op = "ExternSymbol"
    /\ Returned("get_unique_parameter", get_unique_parameter(args.parameters))

EvalStackOffset ==
    /\ op = "Arg"
    /\ Returned("eval_stack_offset",
                eval_stack_offset(args.arg, args.stack_register))

NextSymbol ==
    \/ GetUniqueReturnRegister
    \/ GetUniqueParameter
    \/ EvalStackOffset

SpecSymbol == InitSymbol /\ [][NextSymbol]_vars

\* An Arg list of exactly one plain register.
one_plain_register(list) ==
    /\ Len(list) = 1
    /\ list[1].kind = "Register"
    /\ list[1].expr.shape = "Var"

\* C13 as stated: both functions return Ok only for a list of exactly one
\* plain register.
C13_BothRequirePlainRegister ==
    /\ op = "get_unique_return_register"
           => (result.kind = "Ok" <=> one_plain_register(args.return_values))
    /\ op = "get_unique_parameter"
           => (result.kind = "Ok" <=> one_plain_register(args.parameters))

\* C13 (amended): get_unique_return_register returns the register of a list
\* of exactly one plain register and an error for every other list;
\* get_unique_parameter returns the only element of a list of one Arg of any
\* shape and an error for every other length.
C13_UniqueReturnRegisterAndParameter ==
    /\ op = "get_unique_return_register"
           => /\ result.kind = "Ok" <=> one_plain_register(args.return_values)
              /\ result.kind = "Ok"
                     => result.value = args.return_values[1].expr.var
    /\ op = "get_unique_parameter"
           => /\ result.kind = "Ok" <=> Len(args.parameters) = 1
              /\ result.kind = "Ok" => result.value = args.parameters[1]

C13_Witness ==
    /\ op = "get_unique_parameter"
    /\ Len(args.parameters) = 1
    /\ args.parameters[1].kind = "Stack"
    /\ result = OkValue(args.parameters[1])

RECURSIVE subexpressions(_)
\* The nodes of an expression tree.
subexpressions(expression) ==
    {expression}
    \cup CASE expression.shape = "BinOp" ->
                subexpressions(expression.lhs) \cup subexpressions(expression.rhs)
           [] expression.shape \in {"UnOp", "Subpiece"} ->
                subexpressions(expression.arg)
           [] OTHER -> {}

\* A constant offset to the stack register: no other variable and no shape
\* other than variable, constant, unary and binary operator.
is_stack_offset(expression, stack_reg) ==
    \A node \in subexpressions(expression) :
        /\ node.shape \in {"Var", "Const", "BinOp", "UnOp"}
        /\ node.shape = "Var" => node.var = stack_reg

RECURSIVE offset_value(_)
\* The value of a constant offset with the stack register read as zero.
offset_value(expression) ==
    CASE expression.shape = "Var" -> 0
      [] expression.shape = "Const" -> expression.bitvec
      [] expression.shape = "BinOp" ->
            LET l == offset_value(expression.lhs)
                r == offset_value(expression.rhs)
            IN  IF expression.op = "IntAdd" THEN (l + r) % OffsetModulus
                ELSE (l + OffsetModulus - r) % OffsetModulus
      [] expression.shape = "UnOp" ->
            (OffsetModulus - offset_value(expression.arg)) % OffsetModulus

\* C18: eval_stack_offset fails for an Arg::Register; for an Arg::Stack whose
\* address is built from the stack register, constants and unary and binary
\* operators it returns the value of the address with the stack register
\* read as zero (stack_register + c gives c); it fails for an address with
\* another variable or another expression shape.
C18_EvalStackOffset ==
    op = "eval_stack_offset"
        => /\ args.arg.kind = "Register" => result.kind = "Err"
           /\ args.arg.kind = "Stack"
                => IF is_stack_offset(args.arg.expr, args.stack_register)
                   THEN result = OkValue(offset_value(args.arg.expr))
                   ELSE result.kind = "Err"
           /\ \A c \in 0..(OffsetModulus - 1) :
                args.arg = ArgStackOf(ExprBinOp("IntAdd",
                               ExprVar(args.stack_register), ExprConst(c)))
                    => result = OkValue(c)

C18_Witness ==
    /\ op = "eval_stack_offset"
    /\ args.arg = ArgStackOf(ExprBinOp("IntSub",
                      ExprBinOp("IntAdd", ExprVar(stack_register),
                                ExprConst(OffsetModulus - 1)),
                      ExprConst(1)))
    /\ args.stack_register = stack_register
    /\ result = OkValue(OffsetModulus - 2)

\* -------------------------------------------- format strings and calls

\* Format strings are built from tokens: literal characters, the escape %%
\* and conversion specifiers with flags, width and length modifiers.
LiteralTokens == {<<"a">>, <<"d">>, <<"2">>, <<" ">>}
EscapeToken == <<"%", "%">>
SpecifierTokens ==
    {<<"%", "s">>, <<"%", "p">>, <<"%", "d">>, <<"%", "x">>, <<"%", "c">>,
     <<"%", "f">>, <<"%", "0", "2", "x">>, <<"%", "-", "2", "s">>,
     <<"%", "l", "l", "i">>, <<"%", "l", "d">>, <<"%", "l", "f">>}
TokenInputs == LiteralTokens \cup {EscapeToken} \cup SpecifierTokens

\* What a format string may end in: nothing, or an incomplete specifier.
IncompleteInputs == {<<>>, <<"%">>, <<"%", "0", "2">>}

\* The tokens of the format strings of calls.
CallTokenInputs ==
    {<<"a">>, EscapeToken, <<"%", "c">>, <<"%", "d">>, <<"%", "s">>, <<"%", "f">>}

RECURSIVE flatten(_)
\* The text of a list of tokens.
flatten(tokens) ==
    IF tokens = <<>> THEN <<>> ELSE Head(tokens) \o flatten(Tail(tokens))

TokenLists(tokens, n) == UNION {[1..k -> tokens] : k \in 0..n}

\* The extern symbols of the mocks, and one whose first parameter is passed
\* on the stack.
SymbolCallInputs ==
    {[name |-> "sprintf",
      parameters |-> <<ArgRegister("RDI"), ArgRegister("RSI")>>],
     [name |-> "mock_symbol", parameters |-> <<ArgRegister("RDI")>>],
     [name |-> "snprintf",
      parameters |-> <<ArgStack(Expression(stack_register, 8)), ArgRegister("RSI")>>]}

\* The format string index of the known variadic symbols.
FormatStringIndexMaps ==
    {[name \in {"sprintf", "snprintf"} |-> index] : index \in 0..MaxFormatIndex}

CallingConventionInputs ==
    [integer_parameter_register : {<<"RDI">>, IntegerParameterRegister},
     float_parameter_register : {<<"XMM0">>}]

\* What the register of the format string may hold.
FormatRegisterInputs ==
    {Top, Value({0}), Value({1}),
     from_target(AbstractIdentifier(1, stack_register), {0})}

\* The inputs of get_variable_parameters; the text at address 0 of the
\* memory image is flatten(tokens), no other address is mapped.
VariadicCallInputs ==
    [symbol : SymbolCallInputs,
     format_string_index_map : FormatStringIndexMaps,
     cconv : CallingConventionInputs,
     tokens : TokenLists(CallTokenInputs, MaxCallTokens)]

mem_image_of(tokens) == [address \in {0} |-> flatten(tokens)]

InitFormat ==
    /\ caller_state = new(stack_register, 1)
    /\ pre = caller_state
    /\ result = Ok
    /\ steps = 0
    /\ \/ /\ op = "format_string"
          /\ state = caller_state
          /\ args \in [tokens : TokenLists(TokenInputs, MaxTokens),
                       incomplete : IncompleteInputs]
       \/ /\ op = "call_site"
          /\ \E rdi \in FormatRegisterInputs, rsi \in FormatRegisterInputs :
                state = set_register(set_register(caller_state, "RDI", rdi),
                                     "RSI", rsi)
          /\ args \in VariadicCallInputs

ParseFormatStringParameters ==
    /\ op = "format_string"
    /\ Returned("parse_format_string_parameters",
                OkValue(parse_format_string_parameters(
                            flatten(args.tokens) \o args.incomplete)))

GetVariableParameters ==
    /\ op = "call_site"
    /\ Returned("get_variable_parameters",
                get_variable_parameters(state, args.symbol,
                    args.format_string_index_map, mem_image_of(args.tokens),
                    args.cconv))

NextFormat ==
    \/ ParseFormatStringParameters
    \/ GetVariableParameters

SpecFormat == InitFormat /\ [][NextFormat]_vars

\* The conversion specifiers among the tokens, in order.
specifiers(tokens) ==
    SelectSeq(tokens, LAMBDA token : token \in SpecifierTokens)

\* The conversion character of a specifier token.
conversion(token) == token[Len(token)]

\* The pair a specifier stands for: s and p are pointers of the pointer
\* size, c is a character and the other integer conversions are integers
\* of the integer size, f is a double.
pair_of(token) ==
    CASE conversion(token) \in {"s", "p"} -> <<"Pointer", pointer_size>>
      [] conversion(token) = "c" -> <<"Char", integer_size>>
      [] conversion(token) \in {"d", "x", "i"} -> <<"Integer", integer_size>>
      [] conversion(token) = "f" -> <<"Double", double_size>>

C12_DeclaredThenVariadic ==
    (/\ op = "get_variable_parameters"
     /\ args.symbol.name \in DOMAIN args.format_string_index_map
     /\ result.kind = "Ok")
        => LET declared == args.symbol.parameters
               expected == specifiers(args.tokens)
           IN  /\ Len(result.value) = Len(declared) + Len(expected)
               /\ SubSeq(result.value, 1, Len(declared)) = declared

\* C12 (amended): the result of get_variable_parameters is the variadic
\* Args only, one per conversion of the format string and in its order; the
\* declared parameters of the symbol are not part of it; a symbol without
\* an entry in the index map has the empty list.
C12_VariadicArgsOnly ==
    op = "get_variable_parameters"
        => /\ args.symbol.name \notin DOMAIN args.format_string_index_map
                  => result = OkValue(<<>>)
           /\ (/\ args.symbol.name \in DOMAIN args.format_string_index_map
               /\ result.kind = "Ok")
                  => LET expected == specifiers(args.tokens)
                     IN  /\ Len(result.value) = Len(expected)
                         /\ \A n \in DOMAIN expected :
                              /\ result.value[n].data_type = pair_of(expected[n])[1]
                              /\ result.value[n] \notin Range(args.symbol.parameters)

\* The case of the test: sprintf with the declared parameters RDI and RSI,
\* the format string in RDI, one integer parameter register.
C12_Witness ==
    /\ op = "get_variable_parameters"
    /\ args.symbol.name = "sprintf"
    /\ args.symbol.parameters = <<ArgRegister("RDI"), ArgRegister("RSI")>>
    /\ args.format_string_index_map["sprintf"] = 0
    /\ args.cconv.integer_parameter_register = <<"RDI">>
    /\ args.tokens = <<<<"%", "c">>, <<"%", "d">>>>
    /\ result = OkValue(<<create_stack_arg(4, 8, "Char", stack_register),
                          create_stack_arg(4, 12, "Integer", stack_register)>>)

====
